---- MODULE Spec2Model ----
(***************************************************************************)
(* The PayPal API handler of strautomator-core (src/src/paypal/api.ts):    *)
(* the two credential slots (auth, mAuth), authenticate() and              *)
(* makeRequest(), run by several concurrent callers on one event loop.     *)
(* An async function is split at its awaits: each action below is one      *)
(* synchronous run of the code between two awaits.                         *)
(*                                                                         *)
(* JavaScript objects are functions over their property names, so that a   *)
(* missing property is a name outside the DOMAIN; strings are strings.     *)
(***************************************************************************)
EXTENDS Integers, Sequences, FiniteSets, TLC

\* ------------------------------------------------------------------ bounds
MaxTicks == 1
MaxTokens == 2
Epoch == 1000

\* ------------------------------------------------------- program constants
SafetyMargin == 180
DefaultExpiresIn == 3600

\* ------------------------------------------------------------------ inputs
\* The callers of the singleton: caller 1 alone in Spec, both at once in
\* SpecRace.
Callers == {1, 2}
\* Amounts by which the clock (dayjs().unix()) moves between two steps.
Jumps == {SafetyMargin}
\* Lifetimes a token response may declare.
ExpiresInValues == {0, 360, 3600}

\* ------------------------------------------------------- object helpers
undefined == <<>>
Has(o, k) == k \in DOMAIN o
Put(o, k, v) == [x \in DOMAIN o \cup {k} |-> IF x = k THEN v ELSE o[x]]
Delete(o, k) == [x \in DOMAIN o \ {k} |-> o[x]]
Min(a, b) == IF a <= b THEN a ELSE b
\* s.substring(0, n) of a string held as a sequence of characters
Substring0(s, n) == SubSeq(s, 1, Min(n, Len(s)))

\* settings.paypal.api.baseUrl / mBaseUrl, as sequences of characters
baseUrl == <<"h", "t", "t", "p", ":", "a", "/">>
mBaseUrl == <<"h", "t", "t", "p", ":", "m", "/">>
\* BaseUrlOf that takes the api base URL for either endpoint
BaseUrlOfApi(mEndpoint) == baseUrl
BaseUrlOf(mEndpoint) == IF mEndpoint THEN mBaseUrl ELSE baseUrl
\* The path of the token endpoint (line 96)
TokenPath == <<"v", "1", "/", "o", "a", "u", "t", "h", "2", "/", "t", "o", "k", "e", "n">>
\* The token request of lines 94-105: its method and its URL
TokenRequest(mEndpoint) == [method |-> "POST", url |-> BaseUrlOf(mEndpoint) \o TokenPath]
Http == <<"h", "t", "t", "p">>

\* The request specs the callers pass to makeRequest (reqOptions): the
\* top-level object and, when it has one, its headers object.
RequestSpecs ==
    { [top |-> [method |-> "PATCH", url |-> <<"v", "1">>, returnRepresentation |-> TRUE],
       headers |-> [Accept |-> "json"], hasHeaders |-> TRUE],
      [top |-> [method |-> "GET", url |-> <<"h", "t", "t", "p", ":", "x">>,
                returnRepresentation |-> FALSE],
       headers |-> undefined, hasHeaders |-> FALSE] }

\* The access token of the n-th token the provider issues.
TokenName(n) == "tok" \o ToString(n)

\* What axiosRequest resolves with when the response has no body at all.
null == [null |-> TRUE]

\* What the token request of line 107 may resolve with: a token with or
\* without a lifetime, an object with neither, and no body.  The access
\* token is filled in when the provider issues it.
TokenBodies ==
    { [access_token |-> "", expires_in |-> e] : e \in ExpiresInValues }
    \cup { [access_token |-> ""], << >>, null }
IssueToken(body, n) ==
    IF Has(body, "access_token") THEN [body EXCEPT !.access_token = TokenName(n)] ELSE body

\* Errors the transport (axiosRequest) rejects with: no response received,
\* and a non-2xx response with a provider error body.
ErrNoResponse == [message |-> "timeout"]
ErrHttp ==
    [message |-> "Request failed",
     response |-> [status |-> 422,
                   data |-> [name |-> "VALIDATION_ERROR",
                             details |-> << [issue |-> "DUPLICATE",
                                             description |-> "already exists"] >>]]]
TransportErrors == {ErrNoResponse, ErrHttp}
\* A property k of value v[1], or no property when v is empty.
Property(k, v) == [x \in (IF Len(v) = 0 THEN {} ELSE {k}) |-> v[1]]
\* An error with a response whose body holds the given optional parts.
ResponseError(status, name, message, details) ==
    [message |-> "Request failed",
     response |-> Property("status", status) @@
                  [data |-> Property("name", name) @@ Property("message", message) @@
                            Property("details", details)]]
Duplicate == [issue |-> "DUPLICATE", description |-> "already exists"]
Missing == [issue |-> "MISSING", description |-> "is required"]
\* Provider errors of every shape: with and without a status, a name, a
\* message, and with no, an empty, a one-item and a two-item details list.
ResponseErrors ==
    { ResponseError(s, n, m, d) :
        s \in { << >>, << 422 >> },
        n \in { << >>, << "VALIDATION_ERROR" >> },
        m \in { << >>, << "Invalid request" >> },
        d \in { << >>, << << >> >>, << << Duplicate >> >>, << << Missing, Duplicate >> >> } }
\* A response that has no body.
ErrNoData == [message |-> "Request failed", response |-> [status |-> 502]]
\* What line 108 / line 155 throw on a property read of undefined.
ErrTypeError == [name |-> "TypeError", message |-> "Cannot read properties of undefined"]
\* What database.appState.set rejects with.
ErrDatabase == [message |-> "database unavailable"]
\* The error of line 146.
ErrNotAuthenticated == [message |-> "Not authenticated to PayPal"]
\* Results the transport resolves an API request with.
TransportResults == {"plan"}

VARIABLES
    now,        \* dayjs().unix()
    ticks,      \* number of clock jumps so far
    auth,       \* PayPalAPI.auth: credential of the api endpoint
    mAuth,      \* PayPalAPI.mAuth: credential of the api-m endpoint
    appState,   \* database.appState record "paypal"
    issued,     \* number of tokens the provider has issued
    pc,         \* per caller: where its call is suspended
    running,    \* per caller: "makeRequest", "authenticate" or "none"
    mEndpoint,  \* per caller: the mEndpoint argument of its call
    heap,       \* per caller: reqOptions, its clone, and their headers objects
    options,    \* per caller: the object the local `options` refers to
    res,        \* per caller: the token request awaited, then the token
                \* response being handled and its issue time
    ret,        \* per caller: what the authenticate() of its call returned
    sent,       \* per caller: the options handed to axiosRequest at line 169
    outcome,    \* per caller: how its last makeRequest ended, and how its
                \* transport call had ended
    \* history, read by the properties only
    entry,      \* per caller: the `auth` of line 139, when it was read, the
                \* response it was built from, the credential then persisted,
                \* and whether the caller's previous makeRequest failed to
                \* authenticate
    authCalls,  \* per caller: authenticate() calls made by its makeRequest
    requests,   \* per caller: axiosRequest calls of line 169 made by its makeRequest
    startedAt,  \* per caller: when the token request it awaits was sent
    slotBefore, \* per caller: the slot when its authenticate() was called
    reqBefore,  \* per caller: deep value of reqOptions when makeRequest began
    stored      \* per endpoint: the response the slot's credential was built
                \* from, and the local time it was built at

vars == <<now, ticks, auth, mAuth, appState, issued, pc, running, mEndpoint,
          heap, options, res, ret, sent, outcome, entry, authCalls, requests, startedAt,
          slotBefore, reqBefore, stored>>

\* ---------------------------------------------------- parseResponseError
RECURSIVE Join(_, _)
\* Array.prototype.join
Join(parts, sep) ==
    IF Len(parts) = 0 THEN ""
    ELSE IF Len(parts) = 1 THEN parts[1]
    ELSE parts[1] \o sep \o Join(Tail(parts), sep)

\* JSON.stringify(err, null, 0)
Stringify(err) == ToString(err)

\* `${d[k]}`: a missing property prints as "undefined"
Template(d, k) == IF Has(d, k) THEN d[k] ELSE "undefined"
\* IssueText with the description before the issue
IssueTextDescriptionFirst(d) ==
    Template(d, "description") \o " " \o Template(d, "issue")
\* `${d.issue} ${d.description}`.trim() (line 30), for an issue and a
\* description that have no white space at their own ends
IssueText(d) ==
    IF Template(d, "description") = "" THEN Template(d, "issue")
    ELSE IF Template(d, "issue") = "" THEN Template(d, "description")
    ELSE Template(d, "issue") \o " " \o Template(d, "description")

\* Lines 12-40.  The result is the error itself (kind "object") or the joined
\* details (kind "string").
parseResponseError(err) ==
    IF ~Has(err, "response") \/ ~Has(err.response, "data")
    THEN [kind |-> "object", value |-> err]
    ELSE LET data == err.response.data
             status == IF Has(err.response, "status") /\ err.response.status # 0
                       THEN << "Status " \o ToString(err.response.status) >>
                       ELSE << >>
             name == IF Has(data, "name") /\ data.name # "" THEN << data.name >>
                     ELSE IF Has(data, "message") /\ data.message # ""
                          THEN << data.message >>
                          ELSE << >>
             issues == IF Has(data, "details")
                       THEN [i \in 1..Len(data.details) |-> IssueText(data.details[i])]
                       ELSE << >>
             details == status \o name \o issues
         IN [kind |-> "string",
             value |-> Join(IF Len(details) = 0 THEN << Stringify(err) >> ELSE details, ", ")]

\* ------------------------------------------------------------ credentials
\* this.mAuth or this.auth (lines 139, 155)
Slot(m) == IF m THEN mAuth ELSE auth

\* Line 108: res.expires_in ? res.expires_in : 3600
ExpiresIn(r) ==
    IF Has(r, "expires_in") /\ r.expires_in # 0 THEN r.expires_in ELSE DefaultExpiresIn

\* TokenData without the margin of line 111
TokenDataNoMargin(r, t) ==
    IF Has(r, "access_token")
    THEN [accessToken |-> r.access_token, expiresAt |-> ExpiresIn(r) + t]
    ELSE [expiresAt |-> ExpiresIn(r) + t]

\* Lines 109-112, evaluated at local time t
TokenData(r, t) ==
    IF Has(r, "access_token")
    THEN [accessToken |-> r.access_token, expiresAt |-> ExpiresIn(r) + t - SafetyMargin]
    ELSE [expiresAt |-> ExpiresIn(r) + t - SafetyMargin]

\* NeedsAuthenticate with < for the <= of line 148
NeedsAuthenticateLate(a, t) == a = undefined \/ a.expiresAt < t

\* Lines 142 and 148: does makeRequest call authenticate for the slot it read?
NeedsAuthenticate(a, t) == a = undefined \/ a.expiresAt <= t

\* ------------------------------------------------------------ the request
\* A shallow copy for the deep one of line 138: the headers object is shared.
cloneShallow(h, r) == [ref |-> "clone", heap |-> [h EXCEPT !["clone"] = h[r]]]

\* _.cloneDeep(reqOptions) (line 138): a new object, and a new headers object
\* when reqOptions has one.
cloneDeep(h, r) ==
    IF Has(h[r], "headers")
    THEN [ref |-> "clone",
          heap |-> [h EXCEPT !["clone"] = Put(h[r], "headers", "cloneHeaders"),
                             !["cloneHeaders"] = h[h[r].headers]]]
    ELSE [ref |-> "clone", heap |-> [h EXCEPT !["clone"] = h[r]]]

\* The object a `{}` assigned to o.headers is allocated as.
NewHeaders(o) == IF o = "clone" THEN "cloneHeaders" ELSE "reqHeaders"

\* Line 154: if (!options.headers) options.headers = {}
EnsureHeaders(h, o) ==
    IF Has(h[o], "headers") THEN h
    ELSE [h EXCEPT ![o] = Put(@, "headers", NewHeaders(o)), ![NewHeaders(o)] = << >>]

\* The template string of line 155, for a slot that holds a credential.
Authorization(a) ==
    "Bearer " \o (IF Has(a, "accessToken") THEN a.accessToken ELSE "undefined")

\* Line 155, after line 154
SetAuthorization(h, o, a) ==
    [h EXCEPT ![h[o].headers] = Put(@, "Authorization", Authorization(a))]

\* Lines 158-160
SetFullUrl(h, o, m) ==
    IF Substring0(h[o].url, 4) # Http
    THEN [h EXCEPT ![o] = Put(@, "url", BaseUrlOf(m) \o h[o].url)]
    ELSE h

\* Lines 163-166 without the delete of line 164
SetRepresentationKeepFlag(h, o) ==
    IF Has(h[o], "returnRepresentation") /\ h[o].returnRepresentation
    THEN [h EXCEPT ![h[o].headers] = Put(@, "Prefer", "return=representation")]
    ELSE h

\* Lines 163-166
SetRepresentation(h, o) ==
    IF Has(h[o], "returnRepresentation") /\ h[o].returnRepresentation
    THEN [h EXCEPT ![o] = Delete(@, "returnRepresentation"),
                   ![h[o].headers] = Put(@, "Prefer", "return=representation")]
    ELSE h

\* Lines 154-166 for a slot that holds a credential
Prepare(h, o, a, m) ==
    SetRepresentation(SetFullUrl(SetAuthorization(EnsureHeaders(h, o), o, a), o, m), o)

\* An object as its reader sees it: its own properties, and its headers.
DeepValue(h, o) ==
    IF Has(h[o], "headers") THEN Put(h[o], "headers", h[h[o].headers]) ELSE h[o]

\* The heap of a caller that holds request spec rs.
HeapOf(rs) ==
    [x \in {"reqOptions", "reqHeaders", "clone", "cloneHeaders"} |->
        IF x = "reqOptions"
        THEN (IF rs.hasHeaders THEN Put(rs.top, "headers", "reqHeaders") ELSE rs.top)
        ELSE IF x = "reqHeaders" THEN rs.headers
        ELSE undefined]

\* ------------------------------------------------------------------ state
NoHeap == [x \in {"reqOptions", "reqHeaders", "clone", "cloneHeaders"} |-> undefined]

Init ==
    /\ now = Epoch
    /\ ticks = 0
    /\ auth = undefined
    /\ mAuth = undefined
    /\ appState = [auth |-> undefined, mAuth |-> undefined]
    /\ issued = 0
    /\ pc = [p \in Callers |-> "idle"]
    /\ running = [p \in Callers |-> "none"]
    /\ mEndpoint = [p \in Callers |-> FALSE]
    /\ heap = [p \in Callers |-> NoHeap]
    /\ options = [p \in Callers |-> "clone"]
    /\ res = [p \in Callers |-> undefined]
    /\ ret = [p \in Callers |-> undefined]
    /\ sent = [p \in Callers |-> undefined]
    /\ outcome = [p \in Callers |-> undefined]
    /\ entry = [p \in Callers |-> undefined]
    /\ authCalls = [p \in Callers |-> 0]
    /\ requests = [p \in Callers |-> 0]
    /\ startedAt = [p \in Callers |-> Epoch]
    /\ slotBefore = [p \in Callers |-> undefined]
    /\ reqBefore = [p \in Callers |-> undefined]
    /\ stored = [m \in BOOLEAN |-> undefined]

\* The clock moves.
Tick(d) ==
    /\ ticks < MaxTicks
    /\ now' = now + d
    /\ ticks' = ticks + 1
    /\ UNCHANGED <<auth, mAuth, appState, issued, pc, running, mEndpoint, heap,
                   options, res, ret, sent, outcome, entry, authCalls, requests, startedAt,
                   slotBefore, reqBefore, stored>>

\* ------------------------------------------------------------ authenticate
\* Lines 88-107: authenticate(m) runs up to its await of the token request.
EnterAuthenticate(p, m) ==
    /\ pc' = [pc EXCEPT ![p] = "tokenRequest"]
    /\ res' = [res EXCEPT ![p] = [request |-> TokenRequest(m)]]
    /\ ret' = [ret EXCEPT ![p] = undefined]
    /\ startedAt' = [startedAt EXCEPT ![p] = now]
    /\ slotBefore' = [slotBefore EXCEPT ![p] = << Slot(m) >>]

\* authenticate(m) completes with r: a direct caller has its answer, and a
\* makeRequest awaiting it (lines 144, 150) is ready to resume.
LeaveAuthenticate(p, r) ==
    /\ ret' = [ret EXCEPT ![p] = << r >>]
    /\ res' = [res EXCEPT ![p] = undefined]
    /\ slotBefore' = [slotBefore EXCEPT ![p] = undefined]
    /\ startedAt' = [startedAt EXCEPT ![p] = Epoch]
    /\ pc' = [pc EXCEPT ![p] = IF running[p] = "authenticate" THEN "idle" ELSE "authenticated"]
    /\ running' = [running EXCEPT ![p] = IF @ = "authenticate" THEN "none" ELSE @]

\* A caller other than makeRequest calls authenticate(m).  What the caller
\* kept of its last makeRequest is dropped.
Authenticate(p, m) ==
    /\ pc[p] = "idle"
    /\ running' = [running EXCEPT ![p] = "authenticate"]
    /\ mEndpoint' = [mEndpoint EXCEPT ![p] = m]
    /\ EnterAuthenticate(p, m)
    /\ heap' = [heap EXCEPT ![p] = NoHeap]
    /\ sent' = [sent EXCEPT ![p] = undefined]
    /\ outcome' = [outcome EXCEPT ![p] = undefined]
    /\ entry' = [entry EXCEPT ![p] = undefined]
    /\ authCalls' = [authCalls EXCEPT ![p] = 0]
    /\ requests' = [requests EXCEPT ![p] = 0]
    /\ reqBefore' = [reqBefore EXCEPT ![p] = undefined]
    /\ UNCHANGED <<now, ticks, auth, mAuth, appState, issued, options, stored>>

\* TokenRejected without the catch of lines 126-129: authenticate rejects
\* with ex, which a makeRequest that awaits it catches at lines 145 or 171.
TokenRejectedRaises(p, ex) ==
    /\ pc[p] = "tokenRequest"
    /\ ret' = [ret EXCEPT ![p] = undefined]
    /\ res' = [res EXCEPT ![p] = undefined]
    /\ slotBefore' = [slotBefore EXCEPT ![p] = undefined]
    /\ startedAt' = [startedAt EXCEPT ![p] = Epoch]
    /\ pc' = [pc EXCEPT ![p] = "idle"]
    /\ running' = [running EXCEPT ![p] = "none"]
    /\ outcome' = [outcome EXCEPT ![p] =
                      IF running[p] = "authenticate" THEN @
                      ELSE IF entry[p].auth = undefined
                           THEN [kind |-> "thrown", raised |-> ErrNotAuthenticated,
                                 ex |-> ErrNotAuthenticated]
                           ELSE [kind |-> "thrown", raised |-> ex, ex |-> ex]]
    /\ UNCHANGED <<now, ticks, auth, mAuth, appState, issued, mEndpoint, heap,
                   options, sent, entry, authCalls, requests, reqBefore, stored>>

\* The token request of line 107 rejects with ex: lines 126-128.
TokenRejected(p, ex) ==
    /\ pc[p] = "tokenRequest"
    /\ LeaveAuthenticate(p, FALSE)
    /\ UNCHANGED <<now, ticks, auth, mAuth, appState, issued, mEndpoint, heap,
                   options, sent, outcome, entry, authCalls, requests,
                   reqBefore, stored>>

\* Lines 107-122: the token endpoint's answer arrives, issued either as soon
\* as the request was sent (late) or just now; the credential is built,
\* written to the slot, and the write to the database is awaited.  With no
\* body, line 108 throws and lines 126-128 run.
TokenReceived(p, body, late) ==
    /\ pc[p] = "tokenRequest"
    /\ issued < MaxTokens
    /\ IF body = null
       THEN /\ LeaveAuthenticate(p, FALSE)
            /\ UNCHANGED <<auth, mAuth, issued, stored>>
       ELSE LET r == IssueToken(body, issued + 1)
                t == IF late THEN startedAt[p] ELSE now
                tokenData == TokenData(r, now) IN
            /\ auth' = IF mEndpoint[p] THEN auth ELSE tokenData
            /\ mAuth' = IF mEndpoint[p] THEN tokenData ELSE mAuth
            /\ issued' = issued + 1
            /\ res' = [res EXCEPT ![p] = [data |-> r, issuedAt |-> t, tokenData |-> tokenData]]
            /\ pc' = [pc EXCEPT ![p] = "appStateSet"]
            /\ stored' = [stored EXCEPT ![mEndpoint[p]] = [data |-> r, at |-> now]]
            /\ startedAt' = [startedAt EXCEPT ![p] = Epoch]
            /\ UNCHANGED <<running, ret, slotBefore>>
    /\ UNCHANGED <<now, ticks, appState, mEndpoint, heap, options, sent, outcome,
                   entry, authCalls, requests, reqBefore>>

\* Lines 119/122 complete, line 125 returns true.
AppStateSet(p) ==
    /\ pc[p] = "appStateSet"
    /\ appState' = IF mEndpoint[p]
                   THEN [appState EXCEPT !.mAuth = res[p].tokenData]
                   ELSE [appState EXCEPT !.auth = res[p].tokenData]
    /\ LeaveAuthenticate(p, TRUE)
    /\ UNCHANGED <<now, ticks, auth, mAuth, issued, mEndpoint, heap, options,
                   sent, outcome, entry, authCalls, requests, reqBefore, stored>>

\* AppStateSetFails that empties the slot when the write rejects
AppStateSetFailsClears(p) ==
    /\ pc[p] = "appStateSet"
    /\ auth' = IF mEndpoint[p] THEN auth ELSE undefined
    /\ mAuth' = IF mEndpoint[p] THEN undefined ELSE mAuth
    /\ LeaveAuthenticate(p, FALSE)
    /\ UNCHANGED <<now, ticks, appState, issued, mEndpoint, heap,
                   options, sent, outcome, entry, authCalls, requests,
                   reqBefore, stored>>

\* Lines 119/122 reject: lines 126-128.
AppStateSetFails(p) ==
    /\ pc[p] = "appStateSet"
    /\ LeaveAuthenticate(p, FALSE)
    /\ UNCHANGED <<now, ticks, auth, mAuth, appState, issued, mEndpoint, heap,
                   options, sent, outcome, entry, authCalls, requests,
                   reqBefore, stored>>

\* ------------------------------------------------------------- makeRequest
\* Lines 171-175: the catch of makeRequest rewrites the message and rethrows.
Thrown(ex) ==
    [kind |-> "thrown", raised |-> ex, ex |-> Put(ex, "message", parseResponseError(ex))]
Throw(p, ex) ==
    /\ outcome' = [outcome EXCEPT ![p] = Thrown(ex)]
    /\ pc' = [pc EXCEPT ![p] = "idle"]
    /\ running' = [running EXCEPT ![p] = "none"]

\* The axiosRequest calls of line 169 that the makeRequest caller p is in has
\* made: none when it has only just been called.
RequestsSoFar(p) == IF pc[p] = "idle" THEN 0 ELSE requests[p]

\* Continue that calls axiosRequest twice at line 169
ContinueTwice(p, h, o, m) ==
    IF Slot(m) = undefined
    THEN /\ heap' = [heap EXCEPT ![p] = EnsureHeaders(h, o)]
         /\ sent' = [sent EXCEPT ![p] = undefined]
         /\ requests' = [requests EXCEPT ![p] = RequestsSoFar(p)]
         /\ Throw(p, ErrTypeError)
    ELSE /\ heap' = [heap EXCEPT ![p] = Prepare(h, o, Slot(m), m)]
         /\ sent' = [sent EXCEPT ![p] = DeepValue(Prepare(h, o, Slot(m), m), o)]
         /\ requests' = [requests EXCEPT ![p] = RequestsSoFar(p) + 2]
         /\ pc' = [pc EXCEPT ![p] = "request"]
         /\ running' = [running EXCEPT ![p] = "makeRequest"]
         /\ outcome' = [outcome EXCEPT ![p] = undefined]

\* Lines 153-169 on the heap h of caller p, whose `options` is object o: the
\* request is prepared from the slot as it is now and handed to the
\* transport; the read of line 155 throws when the slot is empty.
Continue(p, h, o, m) ==
    IF Slot(m) = undefined
    THEN /\ heap' = [heap EXCEPT ![p] = EnsureHeaders(h, o)]
         /\ sent' = [sent EXCEPT ![p] = undefined]
         /\ requests' = [requests EXCEPT ![p] = RequestsSoFar(p)]
         /\ Throw(p, ErrTypeError)
    ELSE /\ heap' = [heap EXCEPT ![p] = Prepare(h, o, Slot(m), m)]
         /\ sent' = [sent EXCEPT ![p] = DeepValue(Prepare(h, o, Slot(m), m), o)]
         /\ requests' = [requests EXCEPT ![p] = RequestsSoFar(p) + 1]
         /\ pc' = [pc EXCEPT ![p] = "request"]
         /\ running' = [running EXCEPT ![p] = "makeRequest"]
         /\ outcome' = [outcome EXCEPT ![p] = undefined]

\* The last call of caller p was a makeRequest for endpoint m whose
\* authenticate returned false.
PreviousFailed(p, m) ==
    /\ outcome[p] # undefined
    /\ mEndpoint[p] = m
    /\ authCalls[p] > 0
    /\ ret[p] = << FALSE >>

\* MakeRequest that does not authenticate again after a failed authentication
MakeRequestLatched(p, rs, m) ==
    /\ pc[p] = "idle"
    /\ mEndpoint' = [mEndpoint EXCEPT ![p] = m]
    /\ reqBefore' = [reqBefore EXCEPT ![p] = DeepValue(HeapOf(rs), "reqOptions")]
    /\ entry' = [entry EXCEPT ![p] =
                    [auth |-> Slot(m), at |-> now, from |-> stored[m],
                     saved |-> IF m THEN appState.mAuth ELSE appState.auth,
                     after |-> PreviousFailed(p, m)]]
    /\ LET c == cloneDeep(HeapOf(rs), "reqOptions") IN
       /\ options' = [options EXCEPT ![p] = c.ref]
       /\ IF NeedsAuthenticate(Slot(m), now) /\ ~PreviousFailed(p, m)
          THEN /\ heap' = [heap EXCEPT ![p] = c.heap]
               /\ running' = [running EXCEPT ![p] = "makeRequest"]
               /\ authCalls' = [authCalls EXCEPT ![p] = 0 + 1]
               /\ requests' = [requests EXCEPT ![p] = 0]
               /\ sent' = [sent EXCEPT ![p] = undefined]
               /\ outcome' = [outcome EXCEPT ![p] = undefined]
               /\ EnterAuthenticate(p, m)
          ELSE /\ authCalls' = [authCalls EXCEPT ![p] = 0]
               /\ Continue(p, c.heap, c.ref, m)
               /\ ret' = [ret EXCEPT ![p] = undefined]
               /\ UNCHANGED <<res, startedAt, slotBefore>>
    /\ UNCHANGED <<now, ticks, auth, mAuth, appState, issued, stored>>

\* Lines 137-151, and lines 153-169 when no authentication is needed.
MakeRequest(p, rs, m) ==
    /\ pc[p] = "idle"
    /\ mEndpoint' = [mEndpoint EXCEPT ![p] = m]
    /\ reqBefore' = [reqBefore EXCEPT ![p] = DeepValue(HeapOf(rs), "reqOptions")]
    /\ entry' = [entry EXCEPT ![p] =
                    [auth |-> Slot(m), at |-> now, from |-> stored[m],
                     saved |-> IF m THEN appState.mAuth ELSE appState.auth,
                     after |-> PreviousFailed(p, m)]]
    /\ LET c == cloneDeep(HeapOf(rs), "reqOptions") IN
       /\ options' = [options EXCEPT ![p] = c.ref]
       /\ IF NeedsAuthenticate(Slot(m), now)
          THEN /\ heap' = [heap EXCEPT ![p] = c.heap]
               /\ running' = [running EXCEPT ![p] = "makeRequest"]
               /\ authCalls' = [authCalls EXCEPT ![p] = 0 + 1]
               /\ requests' = [requests EXCEPT ![p] = 0]
               /\ sent' = [sent EXCEPT ![p] = undefined]
               /\ outcome' = [outcome EXCEPT ![p] = undefined]
               /\ EnterAuthenticate(p, m)
          ELSE /\ authCalls' = [authCalls EXCEPT ![p] = 0]
               /\ Continue(p, c.heap, c.ref, m)
               /\ ret' = [ret EXCEPT ![p] = undefined]
               /\ UNCHANGED <<res, startedAt, slotBefore>>
    /\ UNCHANGED <<now, ticks, auth, mAuth, appState, issued, stored>>

\* AfterAuthenticate that authenticates again when authenticate returned false
AfterAuthenticateRetry(p) ==
    /\ pc[p] = "authenticated"
    /\ IF ret[p] = << FALSE >>
       THEN /\ authCalls' = [authCalls EXCEPT ![p] = @ + 1]
            /\ EnterAuthenticate(p, mEndpoint[p])
            /\ UNCHANGED <<heap, sent, running, outcome, requests>>
       ELSE /\ Continue(p, heap[p], options[p], mEndpoint[p])
            /\ UNCHANGED <<res, ret, authCalls, startedAt, slotBefore>>
    /\ UNCHANGED <<now, ticks, auth, mAuth, appState, issued, mEndpoint, options,
                   entry, reqBefore, stored>>

\* makeRequest resumes after its await of authenticate (lines 144, 150),
\* whatever authenticate returned.
AfterAuthenticate(p) ==
    /\ pc[p] = "authenticated"
    /\ Continue(p, heap[p], options[p], mEndpoint[p])
    /\ UNCHANGED <<now, ticks, auth, mAuth, appState, issued, mEndpoint, options,
                   res, ret, entry, authCalls, startedAt, slotBefore,
                   reqBefore, stored>>

\* The request of line 169 resolves: line 170.
TransportResolves(p, v) ==
    /\ pc[p] = "request"
    /\ outcome' = [outcome EXCEPT ![p] =
                      [kind |-> "returned", value |-> v, transport |-> [resolved |-> v]]]
    /\ pc' = [pc EXCEPT ![p] = "idle"]
    /\ running' = [running EXCEPT ![p] = "none"]
    /\ UNCHANGED <<now, ticks, auth, mAuth, appState, issued, mEndpoint, heap,
                   options, res, ret, sent, entry, authCalls, requests, startedAt,
                   slotBefore, reqBefore, stored>>

\* TransportRejects that catches the error and returns nothing
TransportRejectsSwallowed(p, ex) ==
    /\ pc[p] = "request"
    /\ outcome' = [outcome EXCEPT ![p] =
                      [kind |-> "returned", value |-> undefined,
                       transport |-> [rejected |-> ex]]]
    /\ pc' = [pc EXCEPT ![p] = "idle"]
    /\ running' = [running EXCEPT ![p] = "none"]
    /\ UNCHANGED <<now, ticks, auth, mAuth, appState, issued, mEndpoint, heap,
                   options, res, ret, sent, entry, authCalls, requests, startedAt,
                   slotBefore, reqBefore, stored>>

\* The request of line 169 rejects with ex: lines 171-175.
TransportRejects(p, ex) ==
    /\ pc[p] = "request"
    /\ outcome' = [outcome EXCEPT ![p] = Put(Thrown(ex), "transport", [rejected |-> ex])]
    /\ pc' = [pc EXCEPT ![p] = "idle"]
    /\ running' = [running EXCEPT ![p] = "none"]
    /\ UNCHANGED <<now, ticks, auth, mAuth, appState, issued, mEndpoint, heap,
                   options, res, ret, sent, entry, authCalls, requests, startedAt,
                   slotBefore, reqBefore, stored>>

\* One caller at a time uses the singleton, for either endpoint.
Next ==
    \/ \E d \in Jumps : Tick(d)
    \/ \E m \in BOOLEAN : Authenticate(1, m)
    \/ \E ex \in TransportErrors : TokenRejected(1, ex)
    \/ \E body \in TokenBodies, late \in BOOLEAN : TokenReceived(1, body, late)
    \/ AppStateSet(1)
    \/ AppStateSetFails(1)
    \/ \E rs \in RequestSpecs, m \in BOOLEAN : MakeRequest(1, rs, m)
    \/ AfterAuthenticate(1)
    \/ \E v \in TransportResults : TransportResolves(1, v)
    \/ \E ex \in TransportErrors : TransportRejects(1, ex)

Spec == Init /\ [][Next]_vars

\* Both callers use the api endpoint at once, on fewer inputs: a token that
\* lasts 360 seconds or no body, one request spec, one transport error.
RaceBodies == { [access_token |-> "", expires_in |-> 360], null }
RaceRequests == { rs \in RequestSpecs : rs.hasHeaders /\ rs.top.returnRepresentation }
RaceErrors == { ErrNoResponse }

NextRace ==
    \/ \E d \in Jumps : Tick(d)
    \/ \E p \in Callers : Authenticate(p, FALSE)
    \/ \E p \in Callers, ex \in RaceErrors : TokenRejected(p, ex)
    \/ \E p \in Callers, body \in RaceBodies, late \in BOOLEAN : TokenReceived(p, body, late)
    \/ \E p \in Callers : AppStateSet(p)
    \/ \E p \in Callers : AppStateSetFails(p)
    \/ \E p \in Callers, rs \in RaceRequests : MakeRequest(p, rs, FALSE)
    \/ \E p \in Callers : AfterAuthenticate(p)
    \/ \E p \in Callers, v \in TransportResults : TransportResolves(p, v)
    \/ \E p \in Callers, ex \in RaceErrors : TransportRejects(p, ex)

SpecRace == Init /\ [][NextRace]_vars

\* One caller sends requests to the api endpoint, and the transport rejects
\* them with errors of every shape.
AllErrors == ResponseErrors \cup {ErrNoResponse, ErrNoData}

NextErrors ==
    \/ \E d \in Jumps : Tick(d)
    \/ \E rs \in RequestSpecs : MakeRequest(1, rs, FALSE)
    \/ \E ex \in AllErrors : TokenRejected(1, ex)
    \/ \E body \in RaceBodies, late \in BOOLEAN : TokenReceived(1, body, late)
    \/ AppStateSet(1)
    \/ AfterAuthenticate(1)
    \/ \E v \in TransportResults : TransportResolves(1, v)
    \/ \E ex \in AllErrors : TransportRejects(1, ex)

SpecErrors == Init /\ [][NextErrors]_vars

\* ============================================================== properties
\* Caller p's makeRequest has ended (returned or thrown).
Ended(p) == outcome[p] # undefined
\* Caller p's makeRequest read an empty slot at line 139.
FoundAbsent(p) == entry[p] # undefined /\ entry[p].auth = undefined
\* Caller p's makeRequest read a credential that had expired (line 148).
FoundExpired(p) ==
    /\ entry[p] # undefined
    /\ entry[p].auth # undefined
    /\ entry[p].auth.expiresAt <= entry[p].at
\* The authenticate() that caller p's makeRequest awaited returned false.
AuthenticateFailed(p) == authCalls[p] > 0 /\ ret[p] = << FALSE >>
\* The credential of endpoint m was written by an authenticate() that went on
\* to persist it, that is, one that returned true.
Persisted(m) ==
    /\ Slot(m) # undefined
    /\ (IF m THEN appState.mAuth ELSE appState.auth) = Slot(m)

\* C1: a makeRequest that finds the slot empty and whose authenticate fails
\* ends by throwing the "Not authenticated to PayPal" error, and has handed
\* nothing to the transport.
C1_NotAuthenticatedError ==
    \A p \in Callers :
        (Ended(p) /\ FoundAbsent(p) /\ AuthenticateFailed(p))
            => /\ outcome[p].kind = "thrown"
               /\ outcome[p].raised = ErrNotAuthenticated
               /\ sent[p] = undefined

\* C2: a step in which authenticate(m) returns false leaves the slot of m as
\* it was when that authenticate was called.
C2_FailureKeepsSlot ==
    [][\A p \in Callers :
          (pc[p] \in {"tokenRequest", "appStateSet"} /\ ret'[p] = << FALSE >>)
              => (IF mEndpoint[p] THEN mAuth' ELSE auth') = slotBefore[p][1]]_vars

\* C3: a makeRequest that finds an expired credential and whose authenticate
\* fails never hands the transport a request whose Authorization header
\* carries that expired credential's token.
C3_ExpiredTokenNotSent ==
    \A p \in Callers :
        (FoundExpired(p) /\ AuthenticateFailed(p) /\ sent[p] # undefined)
            => sent[p].headers.Authorization # Authorization(entry[p].auth)

\* C4: one makeRequest calls authenticate at most once, also when that call
\* returned false.
C4_AuthenticateAtMostOnce == \A p \in Callers : authCalls[p] <= 1

\* A makeRequest that awaited a failed authenticate has ended, having called
\* authenticate once.
C4_Witness ==
    \E p \in Callers : Ended(p) /\ AuthenticateFailed(p) /\ authCalls[p] = 1

\* The lifetime a token response declares, and 3600 when it declares none.
DeclaredLifetime(data) ==
    IF Has(data, "expires_in") THEN data.expires_in ELSE DefaultExpiresIn
\* The same, with a declared lifetime of 0 counted as none.
UsableLifetime(data) ==
    IF Has(data, "expires_in") /\ data.expires_in # 0 THEN data.expires_in
    ELSE DefaultExpiresIn
\* Caller p's makeRequest read a credential whose authenticate had returned
\* true (it was persisted), with no authentication of that endpoint since.
FoundAuthenticated(p) ==
    /\ entry[p] # undefined
    /\ entry[p].auth # undefined
    /\ entry[p].saved = entry[p].auth

BuiltFrom(m, e) ==
    /\ Slot(m).expiresAt = stored[m].at + e - SafetyMargin
    /\ Has(Slot(m), "accessToken") = Has(stored[m].data, "access_token")
    /\ Has(Slot(m), "accessToken") => Slot(m).accessToken = stored[m].data.access_token

C7_ExpiresBeforeProvider ==
    \A p \in Callers :
        (pc[p] = "appStateSet" /\ Has(res[p].data, "expires_in"))
            => Slot(mEndpoint[p]).expiresAt < res[p].issuedAt + res[p].data.expires_in

\* C8: every credential in a slot has an access token.
C8_AccessTokenDefined ==
    \A m \in BOOLEAN : Slot(m) # undefined => Has(Slot(m), "accessToken")

\* C9: during and after a makeRequest, the caller's reqOptions is deep-equal
\* to what it was when makeRequest was called.
C9_ReqOptionsUnchanged ==
    \A p \in Callers :
        reqBefore[p] # undefined => DeepValue(heap[p], "reqOptions") = reqBefore[p]

\* A makeRequest has thrown after handing the transport a request that
\* differs from the caller's, whose reqOptions had headers.
C9_Witness ==
    \E p \in Callers :
        /\ Ended(p)
        /\ outcome[p].kind = "thrown"
        /\ sent[p] # undefined
        /\ Has(reqBefore[p], "headers")
        /\ sent[p] # reqBefore[p]

\* C10: a request whose reqOptions had returnRepresentation true reaches the
\* transport without that property and with the header
\* Prefer: return=representation.
C10_PreferRepresentation ==
    \A p \in Callers :
        (/\ sent[p] # undefined
         /\ Has(reqBefore[p], "returnRepresentation")
         /\ reqBefore[p].returnRepresentation)
            => /\ ~Has(sent[p], "returnRepresentation")
               /\ Has(sent[p].headers, "Prefer")
               /\ sent[p].headers.Prefer = "return=representation"

\* A request with returnRepresentation true has been handed to the transport.
C10_Witness ==
    \E p \in Callers :
        /\ sent[p] # undefined
        /\ Has(reqBefore[p], "returnRepresentation")
        /\ reqBefore[p].returnRepresentation
\* The base URL and the slot of the endpoint caller p's call is for.
OwnBaseUrl(p) == IF mEndpoint[p] THEN mBaseUrl ELSE baseUrl
OwnSlot(p) == IF mEndpoint[p] THEN mAuth ELSE auth

\* C11: the endpoints are never cross-used.  A token request goes to the token
\* endpoint of the caller's own endpoint; a step changes the slot of an
\* endpoint only when it handles the token response of an authenticate for
\* that endpoint; and a request handed to the transport carries the access
\* token of its own endpoint's slot and, when its url did not start with
\* "http", that url after its own endpoint's base URL.
C11_EndpointsNotCrossed ==
    [][/\ \A p \in Callers :
            pc'[p] = "tokenRequest" => res'[p].request.url = OwnBaseUrl(p)' \o TokenPath
       /\ auth' # auth => \E p \in Callers : pc[p] = "tokenRequest" /\ ~mEndpoint[p]
       /\ mAuth' # mAuth => \E p \in Callers : pc[p] = "tokenRequest" /\ mEndpoint[p]
       /\ \A p \in Callers :
            (pc'[p] = "request" /\ pc[p] # "request")
                => /\ sent'[p].headers.Authorization = Authorization(OwnSlot(p)')
                   /\ sent'[p].url =
                         IF Substring0(reqBefore'[p].url, 4) = Http
                         THEN reqBefore'[p].url
                         ELSE OwnBaseUrl(p)' \o reqBefore'[p].url]_vars

\* A request with a relative url is at the transport for the api-m endpoint
\* while the two slots hold different credentials.
C11_Witness ==
    \E p \in Callers :
        /\ pc[p] = "request"
        /\ mEndpoint[p]
        /\ Substring0(reqBefore[p].url, 4) # Http
        /\ auth # undefined
        /\ mAuth # undefined
        /\ auth # mAuth
\* The parts the normalizer is claimed to join: the status if there is one,
\* the name or else the message, and every details item in list order.
StatusPart(r) == IF Has(r, "status") THEN << "Status " \o ToString(r.status) >> ELSE << >>
NamePart(data) ==
    IF Has(data, "name") THEN << data.name >>
    ELSE IF Has(data, "message") THEN << data.message >>
    ELSE << >>
IssueParts(data) ==
    IF Has(data, "details")
    THEN [i \in 1..Len(data.details) |->
             data.details[i].issue \o " " \o data.details[i].description]
    ELSE << >>
ClaimedParts(err) ==
    StatusPart(err.response) \o NamePart(err.response.data) \o IssueParts(err.response.data)
\* The error has a response with a body.
HasBody(err) == Has(err, "response") /\ Has(err.response, "data")

C13_MessageIsNormalized ==
    \A p \in Callers :
        (Ended(p) /\ outcome[p].kind = "thrown")
            => /\ outcome[p].ex.message.kind = "string"
               /\ (~HasBody(outcome[p].raised) \/ Len(ClaimedParts(outcome[p].raised)) = 0)
                      => outcome[p].ex.message.value = Stringify(outcome[p].raised)
\* Caller p's transport call for the request resolved, or rejected.
Resolved(p) == Has(outcome[p], "transport") /\ Has(outcome[p].transport, "resolved")
Rejected(p) == Has(outcome[p], "transport") /\ Has(outcome[p].transport, "rejected")

\* C14: a makeRequest returns only when its transport call resolved, and then
\* returns what that call resolved with; when its transport call rejected it
\* throws the error the transport rejected with.
C14_FailurePropagated ==
    \A p \in Callers :
        Ended(p) =>
            /\ outcome[p].kind = "returned"
                   => Resolved(p) /\ outcome[p].value = outcome[p].transport.resolved
            /\ Rejected(p)
                   => /\ outcome[p].kind = "thrown"
                      /\ outcome[p].raised = outcome[p].transport.rejected
                      /\ Delete(outcome[p].ex, "message")
                             = Delete(outcome[p].transport.rejected, "message")

\* A makeRequest whose transport call rejected with a provider error has ended.
C14_Witness == \E p \in Callers : Ended(p) /\ Rejected(p) /\ outcome[p].raised = ErrHttp
\* Caller p is inside authenticate, at one of its awaits.
InAuthenticate(p) == pc[p] \in {"tokenRequest", "appStateSet"}

\* C15: every step in which an authenticate ends, after the token request
\* rejected, answered with or without a body, or after the write to the
\* database resolved or rejected, ends it by returning true or false.
C15_AuthenticateReturns ==
    [][\A p \in Callers :
          (InAuthenticate(p) /\ ~InAuthenticate(p)')
              => ret'[p] \in { << TRUE >>, << FALSE >> }]_vars

\* An authenticate has returned false to its direct caller.
C15_Witness ==
    \E p \in Callers : running[p] = "none" /\ outcome[p] = undefined /\ ret[p] = << FALSE >>
\* The credential the database holds for the endpoint of caller p's call.
OwnSaved(p) == IF mEndpoint[p] THEN appState.mAuth ELSE appState.auth
\* Another caller is inside an authenticate for the same endpoint as caller p.
OtherInFlight(p) ==
    \E q \in Callers \ {p} : InAuthenticate(q) /\ mEndpoint[q] = mEndpoint[p]

\* C16: a step in which authenticate returns true leaves in the database, for
\* its endpoint, the credential that authenticate had written to the slot;
\* and when no other authenticate for that endpoint is in flight, the
\* database then holds the credential that is in the slot.
C16_PersistedEqualsSlot ==
    [][\A p \in Callers :
          (pc[p] = "appStateSet" /\ ret'[p] = << TRUE >>)
              => /\ OwnSaved(p)' = res[p].tokenData
                 /\ ~OtherInFlight(p)' => OwnSaved(p)' = OwnSlot(p)']_vars
\* C17: one makeRequest calls the transport for its request at most once, also
\* when that call rejected, and makes at most one token request besides.
C17_TransportAtMostOnce ==
    \A p \in Callers :
        /\ requests[p] <= 1
        /\ Rejected(p) => requests[p] = 1
        /\ requests[p] + authCalls[p] <= 2

\* A makeRequest that authenticated has ended after its one transport call
\* for the request rejected.
C17_Witness ==
    \E p \in Callers : Ended(p) /\ Rejected(p) /\ requests[p] = 1 /\ authCalls[p] = 1
\* Caller p's makeRequest followed one of its own, for the same endpoint, that
\* had failed to authenticate, and found the slot still absent or expired.
RetriesAfterFailure(p) ==
    /\ entry[p] # undefined
    /\ entry[p].after
    /\ (FoundAbsent(p) \/ FoundExpired(p))
\* The authenticate that caller p's makeRequest awaited returned true, and
\* the makeRequest has gone on.
Reauthenticated(p) ==
    /\ authCalls[p] = 1
    /\ ret[p] = << TRUE >>
    /\ pc[p] \in {"request", "idle"}

\* C18: a makeRequest that follows one that failed to authenticate, with the
\* slot still absent or expired, calls authenticate again; when that
\* authenticate returns true, the request goes to the transport with the
\* token of the credential just built from a new token response.
C18_NoLatchedFailure ==
    \A p \in Callers :
        RetriesAfterFailure(p) =>
            /\ authCalls[p] = 1
            /\ Reauthenticated(p) =>
                   /\ sent[p] # undefined
                   /\ stored[mEndpoint[p]] # entry[p].from
                   /\ sent[p].headers.Authorization =
                          Authorization(TokenData(stored[mEndpoint[p]].data,
                                                  stored[mEndpoint[p]].at))

\* After a makeRequest that failed to authenticate, the next one found the
\* slot still empty, authenticated, and its request is at the transport with
\* the new token.
C18_Witness ==
    \E p \in Callers :
        /\ RetriesAfterFailure(p)
        /\ FoundAbsent(p)
        /\ Reauthenticated(p)
        /\ pc[p] = "request"
        /\ Has(OwnSlot(p), "accessToken")
        /\ sent[p].headers.Authorization = "Bearer " \o OwnSlot(p).accessToken
\* Both callers' makeRequests for the api endpoint called authenticate and
\* are now awaiting the transport at the same time.
BothSentAfterAuthenticate ==
    \A p \in Callers : pc[p] = "request" /\ authCalls[p] = 1 /\ ~mEndpoint[p]

\* C19: when the makeRequests of both callers have each called authenticate
\* and are at the transport together, the slot holds a whole credential (token
\* and expiresAt built from one response), some authenticate has returned
\* true and stored the token they carry, and the slot holds the credential of
\* the last authenticate that returned true.
C19_RaceIsBenign ==
    BothSentAfterAuthenticate =>
        /\ auth = TokenData(stored[FALSE].data, stored[FALSE].at)
        /\ appState.auth # undefined
        /\ auth = appState.auth
\* C20: a step never empties a slot that holds a credential, and changes it
\* only to a credential built, token and expiresAt, from a token response
\* received in that step.
C20_SlotNeverEmptied ==
    [][\A m \in BOOLEAN :
          Slot(m) # undefined =>
              /\ Slot(m)' # undefined
              /\ Slot(m)' # Slot(m) =>
                     /\ issued' = issued + 1
                     /\ stored'[m].at = now
                     /\ Slot(m)' = TokenData(stored'[m].data, stored'[m].at)]_vars

\* After an authenticate filled and persisted the credential of the api
\* endpoint, a makeRequest whose authenticate failed has thrown, and the slot
\* still holds a credential.
C20_Witness ==
    \E p \in Callers :
        /\ Ended(p)
        /\ outcome[p].kind = "thrown"
        /\ AuthenticateFailed(p)
        /\ ~mEndpoint[p]
        /\ appState.auth # undefined
        /\ auth # undefined
====
